---- MODULE Spec2Model ----
(***************************************************************************)
(* A model of wkreport's run.py: one execution of the `run` command.       *)
(* run() calls WaniKaniScraper.get_stats(), which fetches the public       *)
(* profile (fetch_profile), extracts the statistics from the page and      *)
(* derives the `known` figures; run() then renders the report and posts it *)
(* to the webhook.                                                         *)
(*                                                                         *)
(* The page is an input: what each lookup finds in it (an element, no      *)
(* element, a text that is not a number, the next stage block) is chosen   *)
(* when the lookup is made.  Python dicts that are iterated are modelled   *)
(* as sequences of [key, value] items in insertion order; dicts that are   *)
(* only indexed are functions.  Texts built by f-strings are modelled by   *)
(* the tuple of the values formatted into them.                            *)
(***************************************************************************)
EXTENDS Integers, Sequences, FiniteSets, TLC

\* ---------------------------------------------------------------- bounds
\* Stage blocks a page may hold.
MaxStages == 2
\* Largest count shown in a subject-type block.
MaxCount == 1

\* ------------------------------------------------------------ page inputs
KnownStages == {"Apprentice", "Guru", "Master", "Enlightened", "Burned"}
\* Titles a stage block of the page may carry: the five SRS stages and one
\* title outside them.
StageTitles == KnownStages \cup {"Lessons"}
\* Subject-type titles a stage block may list, in the orders the model draws:
\* none, two with one of the aggregated subjects left out, two in the reverse
\* of the site's order, the three the site shows, and a fourth.
SubjectLayouts ==
    { <<>>,
      <<"Radicals", "Kanji">>,
      <<"Radicals", "Vocabulary">>,
      <<"Vocabulary", "Kanji">>,
      <<"Radicals", "Kanji", "Vocabulary">>,
      <<"Radicals", "Kanji", "Vocabulary", "Kana">> }
Counts == 0..MaxCount
\* Stage blocks that vary the layout: any title, any layout, every count 1.
LayoutBlocks ==
    { [title |-> t, total |-> Len(l),
       subject_types |-> [i \in 1..Len(l) |-> [title |-> l[i], count |-> 1]]] :
        t \in StageTitles, l \in SubjectLayouts }
\* Stage blocks that vary the counts: Kanji and Vocabulary with any counts.
CountBlocks ==
    { [title |-> t, total |-> k + v,
       subject_types |-> << [title |-> "Kanji", count |-> k],
                            [title |-> "Vocabulary", count |-> v] >>] :
        t \in {"Apprentice", "Guru"}, k \in Counts, v \in Counts }
\* The stage blocks a page is drawn from; the total a block displays is the
\* sum of its counts.
StageBlocks == LayoutBlocks \cup CountBlocks
Usernames == {"tferreira"}
Levels == {"12"}
LevelStages == {"Painful"}
ChartLabels == {"24%"}
AxisMaxima == {"2,074"}
\* The --webhook-url option: given, or left out (click passes None).
None == "None"
WebhookUrls == {"https://chat.example/hooks/x", None}

\* --------------------------------------------------------- python dicts
EmptyDict == <<>>
DictHas(d, k) == \E i \in 1..Len(d) : d[i].key = k
DictGet(d, k) == d[CHOOSE i \in 1..Len(d) : d[i].key = k].value
\* d[k] = v: an existing key keeps its place, a new key goes last.
DictSet(d, k, v) ==
    IF DictHas(d, k)
    THEN [i \in 1..Len(d) |-> IF d[i].key = k THEN [key |-> k, value |-> v] ELSE d[i]]
    ELSE Append(d, [key |-> k, value |-> v])

VARIABLES
    pc,          \* the statement run() is at
    webhook_url, \* the --webhook-url option
    gets,        \* HTTP GETs issued
    posts,       \* HTTP POSTs issued
    stats,       \* get_stats' `stats` dict, then run's
    report,      \* run's title, kanji_progression, vocab_progression
    lines,       \* run's `lines`
    emoji,       \* run's `emoji` local
    seen,        \* stage blocks of the page the stage loop has consumed
    it,          \* items of stats["srs-stages"] the table loop has consumed
    params,      \* the JSON payload handed to requests.post
    status,      \* the webhook's answer to the POST
    absent,      \* the anchor a lookup did not find in the page
    err,         \* the exception that ended the run
    exit_code    \* the process's exit status

vars == <<pc, webhook_url, gets, posts, stats, seen, report, lines, emoji, it,
          params, status, absent, err, exit_code>>

Unbound == "<unbound>"
\* An exception is its class, the line that raised it and what its message
\* names.
NoError == [exc |-> "none", line |-> 0, arg |-> ""]

Init ==
    /\ pc = "fetch_profile"
    /\ webhook_url \in WebhookUrls
    /\ gets = 0
    /\ posts = 0
    /\ stats = EmptyDict
    /\ seen = 0
    /\ report = <<>>
    /\ lines = <<>>
    /\ emoji = Unbound
    /\ it = 0
    /\ params = <<>>
    /\ status = 0
    /\ absent = "none"
    /\ err = NoError
    /\ exit_code = -1

\* (the exception caught around the report's construction and dropped, run()
\* going on to the POST)
RaiseSwallowed(exc, line, arg) ==
    /\ pc' = IF pc = "post" THEN "exit" ELSE "post"
    /\ err' = [exc |-> exc, line |-> line, arg |-> arg]
    /\ exit_code' = IF pc = "post" THEN 1 ELSE exit_code
    /\ stats' = EmptyDict
    /\ seen' = 0
    /\ report' = <<>>
    /\ lines' = <<>>
    /\ emoji' = Unbound
    /\ it' = 0
    /\ params' = <<>>

\* An uncaught exception: it unwinds run(), whose locals are gone, and click
\* ends the process with status 1.
Raise(exc, line, arg) ==
    /\ pc' = "exit"
    /\ err' = [exc |-> exc, line |-> line, arg |-> arg]
    /\ exit_code' = 1
    /\ stats' = EmptyDict
    /\ seen' = 0
    /\ report' = <<>>
    /\ lines' = <<>>
    /\ emoji' = Unbound
    /\ it' = 0
    /\ params' = <<>>

\* A lookup (soup.find / element.find) that finds nothing returns None; the
\* attribute access or subscript on it raises, the message naming the
\* attribute ("'NoneType' object has no attribute 'text'").
Missing(anchor, exc, line, arg) ==
    /\ absent' = anchor
    /\ Raise(exc, line, arg)

\* ------------------------------------------------------ WaniKaniScraper
\* (a transport failure answered by a second attempt)
FetchProfileRetry ==
    /\ pc = "fetch_profile"
    /\ gets' = gets + 1
    /\ \/ /\ gets = 0
          /\ UNCHANGED <<pc, stats, seen, report, lines, emoji, it, params, absent,
                         err, exit_code>>
       \/ /\ gets > 0
          /\ Raise("ConnectionError", 17, "connection")
          /\ UNCHANGED absent
       \/ /\ Raise("HTTPError", 18, "status")
          /\ UNCHANGED absent
       \/ /\ pc' = "basic_stats"
          /\ UNCHANGED <<stats, seen, report, lines, emoji, it, params, absent, err, exit_code>>
    /\ UNCHANGED <<webhook_url, posts, status>>

\* fetch_profile: one requests.get with a 10 s timeout, then raise_for_status.
FetchProfile ==
    /\ pc = "fetch_profile"
    /\ gets' = gets + 1
    /\ \/ \* requests.get raises: timeout, DNS, connection reset
          /\ Raise("ConnectionError", 17, "connection")
          /\ UNCHANGED absent
       \/ \* a 4xx/5xx answer: raise_for_status raises
          /\ Raise("HTTPError", 18, "status")
          /\ UNCHANGED absent
       \/ \* resp.text is returned and handed to BeautifulSoup
          /\ pc' = "basic_stats"
          /\ UNCHANGED <<stats, seen, report, lines, emoji, it, params, absent, err, exit_code>>
    /\ UNCHANGED <<webhook_url, posts, status>>

\* datetime.strptime(text, "%Y-%m-%dT%H:%M:%SZ") of a text written in that
\* format: the datetime of its six fields.
Strptime(fields) ==
    [year |-> fields[1], month |-> fields[2], day |-> fields[3],
     hour |-> fields[4], minute |-> fields[5], second |-> fields[6]]

\* (a username element that is not found read as None, the record built
\* around it)
BasicStatsPlaceholder ==
    /\ pc = "basic_stats"
    /\ \/ Missing("serving-since-date", "AttributeError", 28, "find")
       \/ Missing("time", "TypeError", 28, "subscript")
       \/ Missing("datetime", "KeyError", 28, "datetime")
       \/ Missing("level", "AttributeError", 31, "text")
       \/ Missing("stage", "AttributeError", 32, "text")
       \/ /\ Raise("ValueError", 33, "time data")
          /\ UNCHANGED absent
       \/ \E u \in Usernames \cup {None}, l \in Levels, s \in LevelStages :
            /\ stats' = [username |-> u, level |-> l, stage |-> s,
                         serving_since |-> Strptime(<<2019, 3, 2, 10, 11, 12>>)]
            /\ absent' = IF u = None THEN "username" ELSE absent
            /\ pc' = "srs_stages"
            /\ UNCHANGED <<seen, report, lines, emoji, it, params, err, exit_code>>
    /\ UNCHANGED <<webhook_url, gets, posts, status>>

\* get_stats, "Basic stats": the serving-since time element's datetime
\* attribute, then the dict literal with username, level, stage and the
\* parsed timestamp, in the order Python evaluates them.
BasicStats ==
    /\ pc = "basic_stats"
    /\ \/ Missing("serving-since-date", "AttributeError", 28, "find")
       \/ Missing("time", "TypeError", 28, "subscript")
       \/ Missing("datetime", "KeyError", 28, "datetime")
       \/ Missing("username", "AttributeError", 30, "text")
       \/ Missing("level", "AttributeError", 31, "text")
       \/ Missing("stage", "AttributeError", 32, "text")
       \/ \* the attribute is not in the format: strptime raises
          /\ Raise("ValueError", 33, "time data")
          /\ UNCHANGED absent
       \/ \E u \in Usernames, l \in Levels, s \in LevelStages :
            /\ stats' = [username |-> u, level |-> l, stage |-> s,
                         serving_since |-> Strptime(<<2019, 3, 2, 10, 11, 12>>)]
            /\ pc' = "srs_stages"
            /\ UNCHANGED <<seen, report, lines, emoji, it, params, absent, err, exit_code>>
    /\ UNCHANGED <<webhook_url, gets, posts, status>>

\* stats["srs-stages"] = {}
InitStages ==
    /\ pc = "srs_stages"
    /\ stats' = ("srs-stages" :> EmptyDict) @@ stats
    /\ pc' = "stage_loop"
    /\ UNCHANGED <<webhook_url, gets, posts, seen, report, lines, emoji, it, params,
                   status, absent, err, exit_code>>

\* The inner loop of get_stats: subjects[sub_title] = {title, count} for each
\* subject-type block, in page order.
RECURSIVE Subjects(_, _)
Subjects(blocks, subjects) ==
    IF blocks = <<>> THEN subjects
    ELSE Subjects(Tail(blocks),
                  DictSet(subjects, blocks[1].title,
                          [title |-> blocks[1].title, count |-> blocks[1].count]))

\* One iteration of the stage loop on a well-formed stage block: the entry is
\* created with empty subjects (replacing an entry of the same title) and
\* then filled.
StageEntry(block) ==
    [title |-> block.title, total |-> block.total,
     subjects |-> Subjects(block.subject_types, EmptyDict)]

\* One iteration of the stage loop, lines 38-53: the next stage block of the
\* page, well formed or lacking one of its elements.
StageBlock ==
    /\ pc = "stage_loop"
    /\ \/ \E block \in StageBlocks :
            /\ seen < MaxStages
            /\ seen' = seen + 1
            /\ stats' = [stats EXCEPT !["srs-stages"] =
                            DictSet(@, block.title, StageEntry(block))]
            /\ UNCHANGED <<pc, report, lines, emoji, it, params, absent, err, exit_code>>
       \/ Missing("stage-title", "AttributeError", 39, "text")
       \/ Missing("stage-total", "AttributeError", 40, "text")
       \/ \* the total's text is not a number
          /\ Raise("ValueError", 43, "int")
          /\ UNCHANGED absent
       \/ Missing("subject-type-title", "AttributeError", 48, "text")
       \/ Missing("subject-type-count", "AttributeError", 49, "text")
       \/ \* the count's text is not a number
          /\ Raise("ValueError", 52, "int")
          /\ UNCHANGED absent
    /\ UNCHANGED <<webhook_url, gets, posts, status>>

\* The stage loop is exhausted: stats["progress"] = {}
StagesDone ==
    /\ pc = "stage_loop"
    /\ stats' = ("progress" :> <<>>) @@ stats
    /\ pc' = "kanji_progress"
    /\ UNCHANGED <<webhook_url, gets, posts, seen, report, lines, emoji, it, params,
                   status, absent, err, exit_code>>

\* The sum of the generator at lines 60-64 and 75-79 over the items of
\* srs-stages in order: an item titled "Apprentice" is filtered out before its
\* subjects are looked at; any other item without the subject raises KeyError.
Value(n) == [raised |-> FALSE, value |-> n]
KeyError == [raised |-> TRUE, value |-> 0]

\* (the filter left out: every stage is summed)
RECURSIVE KnownAllStages(_, _)
KnownAllStages(stages, subject) ==
    IF stages = <<>> THEN Value(0)
    ELSE IF ~DictHas(stages[1].value.subjects, subject) THEN KeyError
    ELSE LET rest == KnownAllStages(Tail(stages), subject)
         IN  IF rest.raised THEN KeyError
             ELSE Value(DictGet(stages[1].value.subjects, subject).count + rest.value)

\* (the lookup made with a default: a stage without the subject counts 0)
RECURSIVE KnownWithDefault(_, _)
KnownWithDefault(stages, subject) ==
    IF stages = <<>> THEN Value(0)
    ELSE LET rest == KnownWithDefault(Tail(stages), subject)
         IN  IF stages[1].key = "Apprentice"
                \/ ~DictHas(stages[1].value.subjects, subject)
             THEN rest
             ELSE Value(DictGet(stages[1].value.subjects, subject).count + rest.value)

RECURSIVE Known(_, _)
Known(stages, subject) ==
    IF stages = <<>> THEN Value(0)
    ELSE IF stages[1].key = "Apprentice" THEN Known(Tail(stages), subject)
    ELSE IF ~DictHas(stages[1].value.subjects, subject) THEN KeyError
    ELSE LET rest == Known(Tail(stages), subject)
         IN  IF rest.raised THEN KeyError
             ELSE Value(DictGet(stages[1].value.subjects, subject).count + rest.value)

\* Kanji progress, lines 57-69.
KanjiProgress ==
    /\ pc = "kanji_progress"
    /\ \/ Missing("kanji-progress", "AttributeError", 58, "find")
       \/ Missing("kanji-label-count", "AttributeError", 58, "text")
       \/ Missing("kanji-axis-max", "AttributeError", 59, "text")
       \/ /\ Known(stats["srs-stages"], "Kanji").raised
          /\ Raise("KeyError", 61, "Kanji")
          /\ UNCHANGED absent
       \/ /\ ~Known(stats["srs-stages"], "Kanji").raised
          /\ \E percent \in ChartLabels, max \in AxisMaxima :
                stats' = [stats EXCEPT !["progress"] =
                            ("kanji" :> [known |-> Known(stats["srs-stages"], "Kanji").value,
                                         max |-> max, percent |-> percent]) @@ @]
          /\ pc' = "vocab_progress"
          /\ UNCHANGED <<seen, report, lines, emoji, it, params, absent, err, exit_code>>
    /\ UNCHANGED <<webhook_url, gets, posts, status>>

\* Vocabulary progress, lines 72-84, and `return stats`.
VocabProgress ==
    /\ pc = "vocab_progress"
    /\ \/ Missing("vocabulary-progress", "AttributeError", 73, "find")
       \/ Missing("vocabulary-label-count", "AttributeError", 73, "text")
       \/ Missing("vocabulary-axis-max", "AttributeError", 74, "text")
       \/ /\ Known(stats["srs-stages"], "Vocabulary").raised
          /\ Raise("KeyError", 76, "Vocabulary")
          /\ UNCHANGED absent
       \/ /\ ~Known(stats["srs-stages"], "Vocabulary").raised
          /\ \E percent \in ChartLabels, max \in AxisMaxima :
                stats' = [stats EXCEPT !["progress"] =
                            ("vocabulary" :>
                                [known |-> Known(stats["srs-stages"], "Vocabulary").value,
                                 max |-> max, percent |-> percent]) @@ @]
          /\ pc' = "report"
          /\ UNCHANGED <<seen, report, lines, emoji, it, params, absent, err, exit_code>>
    /\ UNCHANGED <<webhook_url, gets, posts, status>>

\* ------------------------------------------------------------------ run
\* "Generate report": the title and the two progress lines, then the four
\* table lines "|" (stages, radicals, kanji, vocabulary), here empty rows.
Report ==
    /\ pc = "report"
    /\ report' = [title |-> <<stats["username"], stats["stage"], stats["level"]>>,
                  kanji_progression |->
                      <<stats["progress"]["kanji"].known,
                        stats["progress"]["kanji"].max,
                        stats["progress"]["kanji"].percent>>,
                  vocab_progression |->
                      <<stats["progress"]["vocabulary"].known,
                        stats["progress"]["vocabulary"].max,
                        stats["progress"]["vocabulary"].percent>>]
    /\ lines' = << <<>>, <<>>, <<>>, <<>> >>
    /\ pc' = "table_loop"
    /\ UNCHANGED <<webhook_url, gets, posts, stats, seen, emoji, it, params,
                   status, absent, err, exit_code>>

\* The chain of `if stage == ...: emoji = ...` statements: a stage none of
\* them names leaves `emoji` as it was.
Emoji(stage, previous) ==
    IF stage = "Burned" THEN ":fire:"
    ELSE IF stage = "Enlightened" THEN ":mage:"
    ELSE IF stage = "Master" THEN ":hatched_chick:"
    ELSE IF stage = "Guru" THEN ":hatching_chick:"
    ELSE IF stage = "Apprentice" THEN ":egg:"
    ELSE previous

\* lines[i] += f'{subject}|{count}|' for the i-th subject of the stage,
\* counting from 1; Python's lines[i] is the model's rows[i + 1].
RECURSIVE AddSubjects(_, _, _)
AddSubjects(rows, subjects, i) ==
    IF i > Len(subjects) THEN rows
    ELSE AddSubjects(
            [rows EXCEPT ![i + 1] =
                Append(@, <<subjects[i].key, subjects[i].value.count>>)],
            subjects, i + 1)

\* One iteration of the table loop over stats["srs-stages"].items().
TableStage ==
    /\ pc = "table_loop"
    /\ it < Len(stats["srs-stages"])
    /\ LET stage == stats["srs-stages"][it + 1].key
           stage_data == stats["srs-stages"][it + 1].value
           e == Emoji(stage, emoji)
       IN  \/ \* `emoji` is read before any assignment to it
              /\ e = Unbound
              /\ Raise("UnboundLocalError", 125, "emoji")
           \/ \* the fourth subject indexes lines[4]
              /\ e # Unbound
              /\ Len(stage_data.subjects) >= Len(lines)
              /\ Raise("IndexError", 127, "list index")
           \/ /\ e # Unbound
              /\ Len(stage_data.subjects) < Len(lines)
              /\ emoji' = e
              /\ lines' = AddSubjects(
                    [lines EXCEPT ![1] =
                        Append(@, <<stage, e, stage_data.total>>)],
                    stage_data.subjects, 1)
              /\ it' = it + 1
              /\ UNCHANGED <<pc, stats, seen, report, params, err, exit_code>>
    /\ UNCHANGED <<webhook_url, gets, posts, status, absent>>

Separator == <<"---", "---", "---", "---", "---">>
\* list.insert(1, x)
Insert1(rows, x) == <<rows[1], x>> \o SubSeq(rows, 2, Len(rows))

\* The loop is exhausted: the separator row goes in after the stage row and
\* the payload is built.
Params ==
    /\ pc = "table_loop"
    /\ it = Len(stats["srs-stages"])
    /\ lines' = Insert1(lines, Separator)
    /\ params' = [username |-> "Crabigator",
                  icon_url |->
                      "https://global.discourse-cdn.com/wanikanicommunity/original/4X/6/2/a/62a8b0f4c59ff2c5b6651ffcf43531480b3e5297.png",
                  text |-> <<report.title, report.kanji_progression,
                             report.vocab_progression>> \o lines']
    /\ pc' = "post"
    /\ UNCHANGED <<webhook_url, gets, posts, stats, seen, report, emoji, it,
                   status, absent, err, exit_code>>

\* Answers a webhook may give to the POST.
Statuses == {200, 500}

\* requests.post(url=webhook_url, json=params): the response is not looked
\* at, run() returns and the process exits 0.
Post ==
    /\ pc = "post"
    /\ \/ \* no --webhook-url: requests refuses the URL before sending
          /\ webhook_url = None
          /\ Raise("MissingSchema", 135, "None")
          /\ UNCHANGED <<posts, status>>
       \/ \* the request is sent and the transport fails
          /\ webhook_url # None
          /\ posts' = posts + 1
          /\ Raise("ConnectionError", 135, "connection")
          /\ UNCHANGED status
       \/ \* the request is sent and answered
          /\ webhook_url # None
          /\ posts' = posts + 1
          /\ \E code \in Statuses : status' = code
          /\ pc' = "exit"
          /\ exit_code' = 0
          /\ UNCHANGED <<stats, seen, report, lines, emoji, it, params, err>>
    /\ UNCHANGED <<webhook_url, gets, absent>>

Next ==
    \/ FetchProfile
    \/ BasicStats
    \/ InitStages
    \/ StageBlock
    \/ StagesDone
    \/ KanjiProgress
    \/ VocabProgress
    \/ Report
    \/ TableStage
    \/ Params
    \/ Post

Spec == Init /\ [][Next]_vars

\* ------------------------------------------------------------ properties
\* get_stats has returned its record to run().
Returned ==
    \/ pc \in {"report", "table_loop", "post"}
    \/ pc = "exit" /\ exit_code = 0
\* run() has built the title and the progress lines.
Reported ==
    \/ pc \in {"table_loop", "post"}
    \/ pc = "exit" /\ exit_code = 0
StatsKeys == {"username", "level", "stage", "serving_since", "srs-stages", "progress"}
CompleteStats ==
    /\ DOMAIN stats = StatsKeys
    /\ stats["username"] \in Usernames
    /\ stats["level"] \in Levels
    /\ stats["stage"] \in LevelStages
    /\ DOMAIN stats["progress"] = {"kanji", "vocabulary"}
CompleteBody ==
    /\ DOMAIN params = {"username", "icon_url", "text"}
    /\ Len(params.text) = 8
    /\ params.text[1] = <<stats["username"], stats["stage"], stats["level"]>>
    /\ params.text[5] = Separator
HasSubject(stage_data, subject) == DictHas(stage_data.subjects, subject)

\* The counts of `subject` summed over a set of positions of srs-stages.
RECURSIVE SumOver(_, _, _)
SumOver(stages, subject, positions) ==
    IF positions = {} THEN 0
    ELSE LET i == CHOOSE j \in positions : TRUE
         IN  DictGet(stages[i].value.subjects, subject).count
             + SumOver(stages, subject, positions \ {i})
NotApprentice(stages) == {i \in 1..Len(stages) : stages[i].key # "Apprentice"}

\* C1: the `known` value get_stats stores for kanji and for vocabulary, and
\* that run prints as the left side of the known/max progress line, is the
\* sum of that subject's counts over the stages not titled "Apprentice".
C1_KnownExcludesApprentice ==
    /\ Returned =>
        /\ stats["progress"]["kanji"].known =
              SumOver(stats["srs-stages"], "Kanji", NotApprentice(stats["srs-stages"]))
        /\ stats["progress"]["vocabulary"].known =
              SumOver(stats["srs-stages"], "Vocabulary", NotApprentice(stats["srs-stages"]))
    /\ Reported =>
        /\ report.kanji_progression[1] =
              SumOver(stats["srs-stages"], "Kanji", NotApprentice(stats["srs-stages"]))
        /\ report.vocab_progression[1] =
              SumOver(stats["srs-stages"], "Vocabulary", NotApprentice(stats["srs-stages"]))
\* An Apprentice stage with a Kanji count of 1 beside a Guru stage with a
\* Kanji count of 1: the line printed reads 1.
C1_Witness ==
    /\ pc = "post"
    /\ DictHas(stats["srs-stages"], "Apprentice")
    /\ HasSubject(DictGet(stats["srs-stages"], "Apprentice"), "Kanji")
    /\ DictGet(DictGet(stats["srs-stages"], "Apprentice").subjects, "Kanji").count = 1
    /\ DictHas(stats["srs-stages"], "Guru")
    /\ report.kanji_progression[1] = 1

\* C2: the run is all-or-nothing: a run that failed in the fetch, the
\* extraction, the aggregation or the rendering has issued no POST, and a POST
\* is issued only from the state in which the stats record and the message
\* body are complete.
C2_AllOrNothing ==
    /\ []((err.exc # "none" /\ err.line < 135) => posts = 0)
    /\ [][posts' # posts =>
            /\ pc = "post"
            /\ err.exc = "none"
            /\ gets = 1
            /\ CompleteStats
            /\ CompleteBody]_vars
\* The profile fetch answered with a 4xx/5xx status: the run is over and
\* nothing was posted.
C2_Witness ==
    /\ pc = "exit"
    /\ err.exc = "HTTPError"
    /\ gets = 1
    /\ posts = 0

\* C3: a stage title outside the five known ones does not make the table loop
\* fail, and its column header carries a fallback, not the emoji of a known
\* stage left from an earlier iteration.
KnownEmoji == {Emoji(s, Unbound) : s \in KnownStages}
C3_EmojiFallback ==
    /\ err.exc # "UnboundLocalError"
    /\ Len(lines) > 0 =>
        \A i \in 1..Len(lines[1]) :
            lines[1][i][1] \notin KnownStages => lines[1][i][2] \notin KnownEmoji

\* C4: a record get_stats returns holds only stages titled with one of the
\* five known titles.
C4_OnlyKnownStages ==
    Returned =>
        \A i \in 1..Len(stats["srs-stages"]) : stats["srs-stages"][i].key \in KnownStages

\* C5: the run ends in the clean-success state only when the message was
\* delivered: a POST was sent and answered with a success status.
C5_DeliveryFailureFails ==
    (pc = "exit" /\ exit_code = 0) => (posts = 1 /\ status \in 200..299)

\* The line of the statement that dereferences what the lookup of `anchor`
\* returned.
LookupLine(anchor) ==
    CASE anchor \in {"serving-since-date", "time", "datetime"} -> 28
      [] anchor = "username" -> 30
      [] anchor = "level" -> 31
      [] anchor = "stage" -> 32
      [] anchor = "stage-title" -> 39
      [] anchor = "stage-total" -> 40
      [] anchor = "subject-type-title" -> 48
      [] anchor = "subject-type-count" -> 49
      [] anchor \in {"kanji-progress", "kanji-label-count"} -> 58
      [] anchor = "kanji-axis-max" -> 59
      [] anchor \in {"vocabulary-progress", "vocabulary-label-count"} -> 73
      [] anchor = "vocabulary-axis-max" -> 74
\* get_stats ended in an exception: nothing returned, nothing posted, exit 1.
NoRecord ==
    /\ pc = "exit"
    /\ exit_code = 1
    /\ DOMAIN stats = {}
    /\ posts = 0
C7_EveryStageHasBoth ==
    Returned =>
        \A i \in 1..Len(stats["srs-stages"]) :
            /\ HasSubject(stats["srs-stages"][i].value, "Kanji")
            /\ HasSubject(stats["srs-stages"][i].value, "Vocabulary")
\* C7, amended: every stage other than Apprentice of a returned record has the
\* Kanji and the Vocabulary entry (a stage without one ends the run with
\* KeyError, nothing returned and nothing posted); once the kanji sum is
\* stored, every such stage has the Kanji entry.
C7_SummedStagesHaveBoth ==
    /\ Returned =>
        \A i \in NotApprentice(stats["srs-stages"]) :
            /\ HasSubject(stats["srs-stages"][i].value, "Kanji")
            /\ HasSubject(stats["srs-stages"][i].value, "Vocabulary")
    /\ pc = "vocab_progress" =>
        \A i \in NotApprentice(stats["srs-stages"]) :
            HasSubject(stats["srs-stages"][i].value, "Kanji")
    /\ (err.exc = "KeyError" /\ err.line \in {61, 76}) => NoRecord
\* The vocabulary sum met a summed stage without the Vocabulary entry.
C7_Witness ==
    /\ pc = "exit"
    /\ exit_code = 1
    /\ err = [exc |-> "KeyError", line |-> 76, arg |-> "Vocabulary"]

\* C8: one GET, at most one POST, each a single attempt: the GET is the first
\* step, the POST is issued from the state that follows the table loop, and a
\* run that has ended issues no further request.
C8_LinearSingleAttempts ==
    /\ [](/\ gets <= 1
          /\ posts <= 1
          /\ pc # "fetch_profile" => gets = 1
          /\ posts = 1 => pc = "exit")
    /\ [][gets' # gets => (pc = "fetch_profile" /\ gets = 0 /\ posts = 0)]_vars
    /\ [][posts' # posts =>
            /\ pc = "post"
            /\ gets = 1
            /\ it = Len(stats["srs-stages"])
            /\ lines[2] = Separator]_vars
    /\ [][pc = "exit" => (gets' = gets /\ posts' = posts)]_vars
\* A complete run: fetched once, posted once.
C8_Witness ==
    /\ pc = "exit"
    /\ exit_code = 0
    /\ gets = 1
    /\ posts = 1
    /\ Len(stats["srs-stages"]) = MaxStages

\* C9: whatever number of subjects a stage carries, the table loop does not
\* fail on it, every (stage, subject, count) of the record is a cell of the
\* subject rows, and the separator row follows the stage row.
Cells(rows) == UNION { {rows[r][i] : i \in 1..Len(rows[r])} : r \in 3..Len(rows) }
C9_EverySubjectRendered ==
    /\ err.exc # "IndexError"
    /\ pc = "post" =>
        /\ lines[2] = Separator
        /\ \A i \in 1..Len(stats["srs-stages"]) :
            \A j \in 1..Len(stats["srs-stages"][i].value.subjects) :
                LET subject == stats["srs-stages"][i].value.subjects[j]
                IN  <<subject.key, subject.value.count>> \in Cells(lines)

\* C10: once the table is built, every subject row holds cells of one subject
\* only and has one cell per stage column.
C10_RowsAreSubjects ==
    pc = "post" =>
        \A r \in 3..Len(lines) :
            /\ Len(lines[r]) = Len(lines[1])
            /\ \A i, j \in 1..Len(lines[r]) : lines[r][i][1] = lines[r][j][1]

====
